---- MODULE Spec2Model ----
(***************************************************************************)
(* Model of the governance upgrade proposal compiler of                    *)
(* aptos-move/aptos-release-builder/src/components/mod.rs:                 *)
(*   ReleaseEntry::generate_release_script, ReleaseEntry::validate_upgrade,*)
(*   fetch_and_equals, ReleaseConfig::generate_release_proposal_scripts,   *)
(*   ReleaseConfig::validate_upgrade, get_execution_hash and               *)
(*   append_script_hash.                                                   *)
(*                                                                         *)
(* Texts are sequences of tokens: a character (0..255), a marker (a hash   *)
(* placeholder tag, a malformed template tag, source text the hashing      *)
(* facility cannot compile) or a piece of formatted output (the element    *)
(* "<b>u8," of a byte-vector literal, two hex digits of a digest, the      *)
(* fixed texts around them).  File names are sequences of                  *)
(* dot-separated parts, each part a sequence of atoms (strings), so that   *)
(* "0-gas.move" is << <<"0","-","gas">>, <<"move">> >>.  Paths are         *)
(* sequences of file names, relative to the output root.                   *)
(***************************************************************************)
EXTENDS Integers, Sequences, FiniteSets, TLC

\* ------------------------------------------------------------------ bounds
MaxProposals == 2      \* proposals of one release
MaxEntries == 2        \* entries of one release, over all its proposals
MaxValue == 2          \* distinct values an on-chain config is observed with
MaxPackages == 2       \* packages of a framework release
MaxRuns == 2           \* runs of the compiler against the same output root
MaxArgs == 4           \* trailing arguments of one x command

\* --------------------------------------------------------------- constants
HashModulus == 256     \* one digest byte

PLACEHOLDER == 1000    \* the tag {{ script_hash }} of a raw script template
MALFORMED == 1001      \* a tag the template engine cannot parse
NOCOMPILE == 1002      \* source text the hashing facility rejects
ByteLiteralBase == 2000 \* ByteLiteralBase + b is the text "<b>u8," of format!("{}u8,", b)
VectorOpen == 3000     \* the text "vector["
VectorClose == 3001    \* the text "]"
HeaderOpen == 3002     \* the text "// Script hash: "
HeaderClose == 3003    \* the text " \n"
HexByteBase == 4000    \* HexByteBase + b is the two hex digits of the byte b

Values == 1 .. MaxValue
Flags == 1 .. 2

\* "vector::empty<u8>()".to_owned().into_bytes()
EmptyVectorBytes ==
    <<118, 101, 99, 116, 111, 114, 58, 58, 101, 109, 112, 116, 121, 60, 117, 56, 62, 40, 41>>

\* "".to_owned().into_bytes()
EmptyBytes == << >>

\* ------------------------------------------------------------ sequences
Last(s) == s[Len(s)]

Reverse(s) == [i \in 1 .. Len(s) |-> s[Len(s) + 1 - i]]

RECURSIVE Flatten(_)
Flatten(ss) == IF ss = << >> THEN << >> ELSE Head(ss) \o Flatten(Tail(ss))

Bit(b) == IF b THEN 1 ELSE 0

DigitAtoms == <<"0", "1", "2", "3", "4", "5", "6", "7", "8", "9">>

\* format!("{}", idx) as atoms of a file name
RECURSIVE DecimalAtoms(_)
DecimalAtoms(n) ==
    IF n < 10 THEN <<DigitAtoms[n + 1]>>
    ELSE DecimalAtoms(n \div 10) \o <<DigitAtoms[(n % 10) + 1]>>

\* ------------------------------------------------------------------ paths
DotDot == << << >>, << >>, << >> >>          \* the file name ".."

\* Path::file_name: the last component, none for an empty path or "..".
file_name(path) ==
    IF path = << >> \/ Last(path) = DotDot THEN [some |-> FALSE, name |-> << >>]
    ELSE [some |-> TRUE, name |-> Last(path)]

\* PathBuf::set_extension on the last component: the text after the last dot
\* is replaced, unless the only dot is the leading one.
set_extension(name, ext) ==
    IF name = DotDot THEN name
    ELSE IF Len(name) = 1 \/ (Len(name) = 2 /\ name[1] = << >>) THEN name \o <<ext>>
    ELSE SubSeq(name, 1, Len(name) - 1) \o <<ext>>

Parent(path) == SubSeq(path, 1, Len(path) - 1)

\* ---------------------------------------------------------------- hashing
\* The hashing facility compiles the script it is given; it fails on text
\* it cannot compile.
Compiles(text) == \A i \in 1 .. Len(text) : text[i] # NOCOMPILE

\* A position-weighted checksum of the tokens lo..hi of the text.
RECURSIVE WeightedSum(_, _, _)
WeightedSum(text, lo, hi) ==
    IF lo > hi THEN 0
    ELSE IF lo = hi THEN ((2 * lo + 1) * text[lo]) % HashModulus
    ELSE LET mid == (lo + hi) \div 2
         IN  (WeightedSum(text, lo, mid) + WeightedSum(text, mid + 1, hi)) % HashModulus

Digest(text) == <<(7 + Len(text) + WeightedSum(text, 1, Len(text))) % HashModulus>>

\* GenerateExecutionHash::generate_hash: the digest of the script text.
generate_hash(text) ==
    IF Compiles(text) THEN [ok |-> TRUE, hash |-> Digest(text)]
    ELSE [ok |-> FALSE, hash |-> << >>]

\* get_execution_hash: the empty-vector text when nothing was produced yet,
\* else the digest of the most recently produced artifact; a failure of the
\* hashing facility is unwrapped, i.e. it panics.
get_execution_hash(result) ==
    IF result = << >> THEN [ok |-> TRUE, hash |-> EmptyVectorBytes]
    ELSE generate_hash(Last(result).text)

\* the digest as Display prints it: two hex digits for every byte
Hex(bytes) == [i \in 1 .. Len(bytes) |-> HexByteBase + bytes[i]]

\* mutant: the hash in the header is taken of the text with its header
append_script_hash_headed(raw_script) ==
    LET h == generate_hash(<<HeaderOpen, HeaderClose>> \o raw_script)
    IN  IF h.ok THEN [ok |-> TRUE, text |-> <<HeaderOpen>> \o Hex(h.hash) \o <<HeaderClose>> \o raw_script]
        ELSE [ok |-> FALSE, text |-> << >>]

\* append_script_hash: format!("// Script hash: {} \n{}", hash, raw_script);
\* the hashing failure is unwrapped.
append_script_hash(raw_script) ==
    LET h == generate_hash(raw_script)
    IN  IF h.ok THEN [ok |-> TRUE, text |-> <<HeaderOpen>> \o Hex(h.hash) \o <<HeaderClose>> \o raw_script]
        ELSE [ok |-> FALSE, text |-> << >>]

\* -------------------------------------------------------------- templates
\* lines 232-236: "vector[", then format!("{}u8,", b) for every byte, then "]"
HashString(execution_hash) ==
    <<VectorOpen>>
    \o [i \in 1 .. Len(execution_hash) |-> ByteLiteralBase + execution_hash[i]]
    \o <<VectorClose>>

\* Handlebars::register_template_string fails on a tag it cannot parse.
WellFormed(template) == \A i \in 1 .. Len(template) : template[i] # MALFORMED

\* mutant: only the first placeholder is replaced
RenderFirst(template, value) ==
    LET tags == {i \in 1 .. Len(template) : template[i] = PLACEHOLDER}
    IN  IF tags = {} THEN template
        ELSE LET first == CHOOSE i \in tags : \A j \in tags : i <= j
             IN  SubSeq(template, 1, first - 1) \o value
                 \o SubSeq(template, first + 1, Len(template))

\* Handlebars::render with data = {script_hash: value}
Render(template, value) ==
    Flatten([i \in 1 .. Len(template) |->
                IF template[i] = PLACEHOLDER THEN value ELSE <<template[i]>>])

\* ----------------------------------------------------- the source tree
ScriptDir == << <<"proposals">> >>

ChainedScript == <<ScriptDir, << <<"chained">>, <<"move">> >> >>
PlainScript == <<ScriptDir, << <<"plain">>, <<"move">> >> >>
AbsentScript == <<ScriptDir, << <<"absent">>, <<"move">> >> >>
ParentScript == <<ScriptDir, DotDot>>
BrokenScript == <<ScriptDir, << <<"broken">>, <<"move">> >> >>
InvalidScript == <<ScriptDir, << <<"invalid">>, <<"move">> >> >>

ScriptPaths == {ChainedScript, PlainScript, AbsentScript, ParentScript, BrokenScript, InvalidScript}

\* std::fs::read_to_string(aptos_core_path().join(script_path))
read_to_string(path) ==
    CASE path = ChainedScript -> [ok |-> TRUE, text |-> <<65, PLACEHOLDER, 66, PLACEHOLDER>>]
      [] path = PlainScript -> [ok |-> TRUE, text |-> <<67, 68>>]
      [] path = BrokenScript -> [ok |-> TRUE, text |-> <<69, MALFORMED>>]
      [] path = InvalidScript -> [ok |-> TRUE, text |-> <<PLACEHOLDER, NOCOMPILE>>]
      [] OTHER -> [ok |-> FALSE, text |-> << >>]

\* ---------------------------------------------------------------- entries
FeatureSets == {[enabled |-> {1}, disabled |-> {2}]}

\* The values the entries of a release declare.
Desired == {1}

ReleaseEntry ==
    [kind : {"Framework"}, packages : 1 .. MaxPackages]
    \cup [kind : {"CustomGas", "Version", "Consensus", "Execution"}, value : Desired]
    \cup [kind : {"DefaultGas"}]
    \cup [kind : {"FeatureFlag"}, features : FeatureSets]
    \cup [kind : {"RawScript"}, path : ScriptPaths]

ExecutionMode == {"MultiStep", "SingleStep", "RootSigner"}

\* aptos_gas::gen::current_gas_schedule()
current_gas_schedule == 1

ConfigKinds == {"CustomGas", "DefaultGas", "Version", "FeatureFlag", "Consensus", "Execution"}

\* What one read of the network returns: a failure (transport or
\* deserialization), a config value, or the set of enabled feature flags.
NetFailure == [ok |-> FALSE]

NetValues == {[ok |-> TRUE, value |-> v] : v \in Values}

NetFeatures == {[ok |-> TRUE, enabled |-> s] : s \in SUBSET Flags}

Responses(kind) ==
    IF kind = "FeatureFlag" THEN NetFeatures \cup {NetFailure}
    ELSE IF kind \in ConfigKinds THEN NetValues \cup {NetFailure}
    ELSE {NetFailure}

\* Features::has_modified: a flag to enable is off, or a flag to disable is on.
has_modified(features, on_chain) ==
    \/ \E f \in features.enabled : f \notin on_chain
    \/ \E f \in features.disabled : f \in on_chain


\* ------------------------------------------------------------- generators
\* The text of a generated script: the kind of change, the new value, the
\* testnet flag and the chain hash it was given.
ScriptText(code, payload, is_testnet, next_execution_hash) ==
    <<code>> \o payload \o <<Bit(is_testnet), Len(next_execution_hash)>> \o next_execution_hash

FlagsCode(s) == Bit(1 \in s) + 2 * Bit(2 \in s)

generate_gas_upgrade_proposal(gas_schedule, is_testnet, next_execution_hash) ==
    << [name |-> << <<"gas-schedule">> >>,
        text |-> ScriptText(1, <<gas_schedule>>, is_testnet, next_execution_hash)] >>

generate_version_upgrade_proposal(version, is_testnet, next_execution_hash) ==
    << [name |-> << <<"version">> >>,
        text |-> ScriptText(2, <<version>>, is_testnet, next_execution_hash)] >>

generate_feature_upgrade_proposal(features, is_testnet, next_execution_hash) ==
    << [name |-> << <<"features">> >>,
        text |-> ScriptText(3, <<FlagsCode(features.enabled), FlagsCode(features.disabled)>>,
                            is_testnet, next_execution_hash)] >>

generate_consensus_upgrade_proposal(consensus_config, is_testnet, next_execution_hash) ==
    << [name |-> << <<"consensus-config">> >>,
        text |-> ScriptText(4, <<consensus_config>>, is_testnet, next_execution_hash)] >>

generate_execution_config_upgrade_proposal(execution_config, is_testnet, next_execution_hash) ==
    << [name |-> << <<"execution-config">> >>,
        text |-> ScriptText(5, <<execution_config>>, is_testnet, next_execution_hash)] >>

PackageNames == <<"move-stdlib", "aptos-stdlib", "aptos-framework", "aptos-token">>

FrameworkScript(j, is_testnet, next_execution_hash) ==
    [name |-> << <<PackageNames[j]>> >>,
     text |-> ScriptText(6, <<j>>, is_testnet, next_execution_hash)]

\* The packages of a chained release, last package first, each one given
\* the digest of the one generated before it.
RECURSIVE FrameworkChain(_, _, _, _)
FrameworkChain(j, acc, is_testnet, next_execution_hash) ==
    IF j = 0 THEN acc
    ELSE LET h == IF acc = << >> THEN next_execution_hash
                  ELSE generate_hash(Last(acc).text).hash
         IN  FrameworkChain(j - 1, Append(acc, FrameworkScript(j, is_testnet, h)),
                            is_testnet, next_execution_hash)

generate_upgrade_proposals(framework_release, is_testnet, next_execution_hash) ==
    IF next_execution_hash = EmptyBytes
    THEN [j \in 1 .. framework_release.packages |-> FrameworkScript(j, is_testnet, EmptyBytes)]
    ELSE FrameworkChain(framework_release.packages, << >>, is_testnet, next_execution_hash)

\* ------------------------------------------------------- State Comparator
\* mutant: a failed read is tried once more
fetch_and_equals_retrying(client, net, expected) ==
    IF client
    THEN IF net.ok THEN [ok |-> TRUE, equal |-> (net.value = expected), reads |-> 1]
         ELSE [ok |-> FALSE, equal |-> FALSE, reads |-> 2]
    ELSE [ok |-> TRUE, equal |-> FALSE, reads |-> 0]

\* mutant: the comparison is inverted
fetch_and_equals_inverted(client, net, expected) ==
    IF client
    THEN IF net.ok THEN [ok |-> TRUE, equal |-> (net.value # expected), reads |-> 1]
         ELSE [ok |-> FALSE, equal |-> FALSE, reads |-> 1]
    ELSE [ok |-> TRUE, equal |-> FALSE, reads |-> 0]

\* fetch_and_equals: false without a read when there is no client, else one
\* read and the comparison of what it returns with the expected value.
fetch_and_equals(client, net, expected) ==
    IF client
    THEN IF net.ok THEN [ok |-> TRUE, equal |-> (net.value = expected), reads |-> 1]
         ELSE [ok |-> FALSE, equal |-> FALSE, reads |-> 1]
    ELSE [ok |-> TRUE, equal |-> FALSE, reads |-> 0]

\* mutant: needs_update starts as false
fetch_features_unneeded(client, net, features) ==
    IF client
    THEN IF net.ok THEN [ok |-> TRUE, equal |-> ~has_modified(features, net.enabled), reads |-> 1]
         ELSE [ok |-> FALSE, equal |-> FALSE, reads |-> 1]
    ELSE [ok |-> TRUE, equal |-> TRUE, reads |-> 0]

\* lines 155-169: needs_update of a FeatureFlag entry, as "equal" = ~needs_update
fetch_features(client, net, features) ==
    IF client
    THEN IF net.ok THEN [ok |-> TRUE, equal |-> ~has_modified(features, net.enabled), reads |-> 1]
         ELSE [ok |-> FALSE, equal |-> FALSE, reads |-> 1]
    ELSE [ok |-> TRUE, equal |-> FALSE, reads |-> 0]

\* ------------------------------------------------- generate_release_script
\* The outcome of one call: how it ended, the artifact list it leaves, the
\* number of get_execution_hash calls and of network reads it made, and the
\* chain hashes it handed to a generator or to the template.
Ok(result, calls, reads, chain) ==
    [status |-> "ok", error |-> "", result |-> result, calls |-> calls, reads |-> reads,
     chain |-> chain]

Err(error, result, calls, reads) ==
    [status |-> "err", error |-> error, result |-> result, calls |-> calls, reads |-> reads,
     chain |-> << >>]

Panic(error, result, calls, reads) ==
    [status |-> "panic", error |-> error, result |-> result, calls |-> calls,
     reads |-> reads, chain |-> << >>]

\* mutant: RootSigner proposals are chained as well
ModeFlagsChainedRoot(execution_mode) ==
    CASE execution_mode = "MultiStep" -> [is_testnet |-> FALSE, is_multi_step |-> TRUE]
      [] execution_mode = "SingleStep" -> [is_testnet |-> FALSE, is_multi_step |-> FALSE]
      [] execution_mode = "RootSigner" -> [is_testnet |-> TRUE, is_multi_step |-> TRUE]

ModeFlags(execution_mode) ==
    CASE execution_mode = "MultiStep" -> [is_testnet |-> FALSE, is_multi_step |-> TRUE]
      [] execution_mode = "SingleStep" -> [is_testnet |-> FALSE, is_multi_step |-> FALSE]
      [] execution_mode = "RootSigner" -> [is_testnet |-> TRUE, is_multi_step |-> FALSE]

\* mutant: the Hash Chainer is asked in every execution mode
NextExecutionHashAlways(is_multi_step, result) == get_execution_hash(result) @@ [calls |-> 1]

\* if is_multi_step { get_execution_hash(result) } else { "".to_owned().into_bytes() }
NextExecutionHash(is_multi_step, result) ==
    IF is_multi_step THEN get_execution_hash(result) @@ [calls |-> 1]
    ELSE [ok |-> TRUE, hash |-> EmptyBytes, calls |-> 0]

\* The generator call of a config arm, with the chain hash it is handed.
Generated(entry, is_testnet, h) ==
    CASE entry.kind = "CustomGas" -> generate_gas_upgrade_proposal(entry.value, is_testnet, h)
      [] entry.kind = "DefaultGas" ->
            generate_gas_upgrade_proposal(current_gas_schedule, is_testnet, h)
      [] entry.kind = "Version" -> generate_version_upgrade_proposal(entry.value, is_testnet, h)
      [] entry.kind = "FeatureFlag" ->
            generate_feature_upgrade_proposal(entry.features, is_testnet, h)
      [] entry.kind = "Consensus" ->
            generate_consensus_upgrade_proposal(entry.value, is_testnet, h)
      [] entry.kind = "Execution" ->
            generate_execution_config_upgrade_proposal(entry.value, is_testnet, h)

\* mutant: the chain hash is computed before the comparison is looked at
UpgradeIfNeededEager(cmp, entry, gen_ok, flags, result) ==
    LET h == NextExecutionHash(flags.is_multi_step, result)
    IN  IF ~cmp.ok THEN Err("network", result, h.calls, cmp.reads)
        ELSE IF cmp.equal THEN Ok(result, h.calls, cmp.reads, << >>)
        ELSE IF ~h.ok THEN Panic("hash unwrap", result, h.calls, cmp.reads)
        ELSE IF ~gen_ok THEN Err("generator", result, h.calls, cmp.reads)
        ELSE Ok(result \o Generated(entry, flags.is_testnet, h.hash), h.calls, cmp.reads,
                <<h.hash>>)

\* The shape shared by the config arms: compare, then generate with the
\* chain hash and append.
UpgradeIfNeeded(cmp, entry, gen_ok, flags, result) ==
    IF ~cmp.ok THEN Err("network", result, 0, cmp.reads)
    ELSE IF cmp.equal THEN Ok(result, 0, cmp.reads, << >>)
    ELSE LET h == NextExecutionHash(flags.is_multi_step, result)
         IN  IF ~h.ok THEN Panic("hash unwrap", result, h.calls, cmp.reads)
             ELSE IF ~gen_ok THEN Err("generator", result, h.calls, cmp.reads)
             ELSE Ok(result \o Generated(entry, flags.is_testnet, h.hash), h.calls,
                     cmp.reads, <<h.hash>>)

FrameworkEntry(framework_release, gen_ok, flags, result) ==
    LET h == NextExecutionHash(flags.is_multi_step, result)
    IN  IF ~h.ok THEN Panic("hash unwrap", result, h.calls, 0)
        ELSE IF ~gen_ok THEN Panic("generator unwrap", result, h.calls, 0)
        ELSE Ok(result \o generate_upgrade_proposals(framework_release, flags.is_testnet, h.hash),
                h.calls, 0, <<h.hash>>)

RawScriptEntry(script_path, result, execution_mode) ==
    LET name == file_name(script_path)
        file == read_to_string(script_path)
    IN  IF ~name.some THEN Err("file name", result, 0, 0)
        ELSE IF ~file.ok THEN Err("read", result, 0, 0)
        ELSE IF execution_mode = "MultiStep"
        THEN IF ~WellFormed(file.text) THEN Panic("template unwrap", result, 0, 0)
             ELSE LET h == get_execution_hash(result)
                  IN  IF ~h.ok THEN Panic("hash unwrap", result, 1, 0)
                      ELSE Ok(Append(result, [name |-> name.name,
                                              text |-> Render(file.text, HashString(h.hash))]),
                              1, 0, <<h.hash>>)
        ELSE Ok(Append(result, [name |-> name.name, text |-> file.text]), 0, 0, << >>)

\* mutant: a DefaultGas entry is generated without looking at the chain
generate_release_script_default_ungated(entry, client, net, gen_ok, result, execution_mode) ==
    LET flags == ModeFlags(execution_mode)
    IN  CASE entry.kind = "Framework" -> FrameworkEntry(entry, gen_ok, flags, result)
          [] entry.kind = "FeatureFlag" ->
                UpgradeIfNeeded(fetch_features(client, net, entry.features), entry, gen_ok,
                                flags, result)
          [] entry.kind = "RawScript" -> RawScriptEntry(entry.path, result, execution_mode)
          [] entry.kind = "DefaultGas" ->
                UpgradeIfNeeded(fetch_and_equals(FALSE, net, current_gas_schedule), entry,
                                gen_ok, flags, result)
          [] OTHER ->
                UpgradeIfNeeded(fetch_and_equals(client, net, entry.value), entry, gen_ok,
                                flags, result)

generate_release_script(entry, client, net, gen_ok, result, execution_mode) ==
    LET flags == ModeFlags(execution_mode)
        expected == IF entry.kind = "DefaultGas" THEN current_gas_schedule ELSE entry.value
    IN  CASE entry.kind = "Framework" -> FrameworkEntry(entry, gen_ok, flags, result)
          [] entry.kind = "FeatureFlag" ->
                UpgradeIfNeeded(fetch_features(client, net, entry.features), entry, gen_ok,
                                flags, result)
          [] entry.kind = "RawScript" -> RawScriptEntry(entry.path, result, execution_mode)
          [] OTHER ->
                UpgradeIfNeeded(fetch_and_equals(client, net, expected), entry, gen_ok,
                                flags, result)


\* ------------------------------------------------------------- file system
Root == << >>                                   \* base_path
ReleaseName == << <<"release">> >>              \* self.name
SourcesName == << <<"sources">> >>
MetadataName == << <<"metadata">> >>

ProposalNames == { << <<"upgrade">> >>, << <<"upgrade">>, <<"v2">> >> }

NoFiles == [path \in {} |-> << >>]

\* std::fs::create_dir: fails when the path exists or its parent does not.
\* The parent of the output root exists.
create_dir(fs_dirs, fs_files, path) ==
    IF path \in fs_dirs \/ path \in DOMAIN fs_files THEN [ok |-> FALSE, dirs |-> fs_dirs]
    ELSE IF path # Root /\ Parent(path) \notin fs_dirs THEN [ok |-> FALSE, dirs |-> fs_dirs]
    ELSE [ok |-> TRUE, dirs |-> fs_dirs \cup {path}]

\* std::fs::write: creates or replaces the file; fails on a directory or
\* under a missing directory.
write(fs_dirs, fs_files, path, contents) ==
    IF path \in fs_dirs \/ Parent(path) \notin fs_dirs THEN [ok |-> FALSE, files |-> fs_files]
    ELSE [ok |-> TRUE,
          files |-> [q \in DOMAIN fs_files \cup {path} |->
                        IF q = path THEN contents ELSE fs_files[q]]]

\* create_dir for each path in turn, stopping at the first failure
RECURSIVE create_dirs(_, _, _)
create_dirs(fs_dirs, fs_files, paths) ==
    IF paths = << >> THEN [ok |-> TRUE, dirs |-> fs_dirs]
    ELSE LET made == create_dir(fs_dirs, fs_files, Head(paths))
         IN  IF made.ok THEN create_dirs(made.dirs, fs_files, Tail(paths)) ELSE made

\* lines 381-384
ProposalDir(name) == <<SourcesName, ReleaseName, name>>

\* lines 410-413: format!("{}-{}", idx, script_name), then set_extension("move")
ScriptPath(proposal_dir, idx, script_name) ==
    Append(proposal_dir,
           set_extension(<<DecimalAtoms(idx) \o <<"-">> \o script_name[1]>> \o Tail(script_name),
                         <<"move">>))

\* lines 409-417, from the artifact with index idx on
RECURSIVE flush_scripts(_, _, _, _, _)
flush_scripts(fs_dirs, fs_files, proposal_dir, list, idx) ==
    IF idx >= Len(list) THEN [status |-> "ok", error |-> "", files |-> fs_files, written |-> idx]
    ELSE LET script == list[idx + 1]
             text == append_script_hash(script.text)
             done == write(fs_dirs, fs_files, ScriptPath(proposal_dir, idx, script.name),
                           text.text)
         IN  IF ~text.ok
             THEN [status |-> "panic", error |-> "hash unwrap", files |-> fs_files, written |-> idx]
             ELSE IF ~done.ok
             THEN [status |-> "err", error |-> "write", files |-> fs_files, written |-> idx]
             ELSE flush_scripts(fs_dirs, done.files, proposal_dir, list, idx + 1)

\* lines 419-422
MetadataPath(name) == <<MetadataName, set_extension(name, <<"json">>)>>

\* serde_json::to_string_pretty(&proposal.metadata): "{" title "}"
MetadataJson(metadata) == <<123, metadata, 125>>

\* ------------------------------------------------------------------ state
VARIABLES
    pc,          \* where generate_release_proposal_scripts is: "start", "proposal"
                 \* (head of the loop over proposals), "walk", "flush", and the
                 \* ends "done" (Ok), "failed" (Err), "panicked"
    error,       \* the error the run ended with, "" otherwise
    run,         \* 1 for the first run against the output root, 2 for the next
    client,      \* whether the release has a remote endpoint
    dirs,        \* the directories under (and including) the output root
    files,       \* the files under the output root, path -> content
    count,       \* proposals of the release completed in this run
    proposal,    \* the proposal being compiled: name, metadata, execution_mode
                 \* and the length of its update_sequence
    visited,     \* entries of the proposal visited so far
    result,      \* the accumulated artifact list
    written,     \* artifacts of the proposal written so far
    log,         \* one record per generate_release_script call of the proposal
    used         \* entries read from the release so far

vars == <<pc, error, run, client, dirs, files, count, proposal, visited, result,
          written, log, used>>

NoProposal == [name |-> << << >> >>, metadata |-> 0, execution_mode |-> "SingleStep", entries |-> 0]

Init ==
    /\ pc = "start"
    /\ error = ""
    /\ run = 1
    /\ client \in BOOLEAN
    /\ dirs \in {{}, {Root}}
    /\ files = NoFiles
    /\ count = 0
    /\ proposal = NoProposal
    /\ visited = 0
    /\ result = << >>
    /\ written = 0
    /\ log = << >>
    /\ used = 0

\* lines 340-376: the source and metadata directories
Setup ==
    /\ pc = "start"
    /\ LET exists == Root \in dirs
           root == IF exists THEN [ok |-> TRUE, dirs |-> dirs] ELSE create_dir(dirs, files, Root)
           made == IF root.ok
                   THEN create_dirs(root.dirs, files,
                                    << <<SourcesName>>, <<SourcesName, ReleaseName>>,
                                       <<MetadataName>>, <<MetadataName, ReleaseName>> >>)
                   ELSE root
       IN  /\ dirs' = made.dirs
           /\ pc' = IF made.ok THEN "proposal" ELSE "failed"
           /\ error' = IF made.ok THEN "" ELSE "create_dir"
    /\ UNCHANGED <<run, client, files, count, proposal, visited, result, written, log, used>>

\* mutant: the list is reversed in every execution mode
AfterWalkAlways(execution_mode, list) == Reverse(list)

\* line 398: the list of a MultiStep proposal is reversed once the walk ends
AfterWalk(execution_mode, list) == IF execution_mode = "MultiStep" THEN Reverse(list) ELSE list

\* lines 380-389: the next proposal of the release, its directory, an empty
\* list; the execution mode and the entries are not looked at when the
\* directory cannot be created
BeginProposal ==
    /\ pc = "proposal"
    /\ count < MaxProposals
    /\ \E name \in ProposalNames :
          LET made == create_dir(dirs, files, ProposalDir(name))
          IN  /\ dirs' = made.dirs
              /\ error' = IF made.ok THEN "" ELSE "create_dir"
              /\ IF made.ok
                 THEN \E mode \in ExecutionMode, n \in 0 .. (MaxEntries - used) :
                         /\ proposal' = [name |-> name, metadata |-> count + 1,
                                         execution_mode |-> mode, entries |-> n]
                         /\ pc' = IF n = 0 THEN "flush" ELSE "walk"
                 ELSE /\ proposal' = [NoProposal EXCEPT !.name = name]
                      /\ pc' = "failed"
    /\ visited' = 0
    /\ result' = << >>
    /\ written' = 0
    /\ log' = << >>
    /\ UNCHANGED <<run, client, files, count, used>>

\* lines 390-407: one entry of the walk, the last in declared order first
\* for a MultiStep proposal
Generate ==
    /\ pc = "walk"
    /\ visited < proposal.entries
    /\ \E entry \in ReleaseEntry :
       \E net \in (IF client THEN Responses(entry.kind) ELSE {NetFailure}),
          gen_ok \in (IF entry.kind = "RawScript" THEN {TRUE} ELSE BOOLEAN) :
          LET mode == proposal.execution_mode
              pos == IF mode = "MultiStep" THEN proposal.entries - visited ELSE visited + 1
              out == generate_release_script(entry, client, net, gen_ok, result, mode)
              last == visited + 1 = proposal.entries
          IN  /\ log' = Append(log, [pos |-> pos, entry |-> entry, status |-> out.status,
                                     error |-> out.error,
                                     appended |-> Len(out.result) - Len(result),
                                     calls |-> out.calls, reads |-> out.reads,
                                     chain |-> out.chain])
              /\ result' = IF out.status = "ok" /\ last THEN AfterWalk(mode, out.result)
                           ELSE out.result
              /\ pc' = CASE out.status = "err" -> "failed"
                         [] out.status = "panic" -> "panicked"
                         [] OTHER -> IF last THEN "flush" ELSE "walk"
              /\ error' = out.error
    /\ visited' = visited + 1
    /\ used' = used + 1
    /\ UNCHANGED <<run, client, dirs, files, count, proposal, written>>

\* lines 409-417: every artifact in turn, with its header, into the proposal
\* directory; a failure leaves the files written before it
Flush ==
    /\ pc = "flush"
    /\ written < Len(result)
    /\ LET out == flush_scripts(dirs, files, ProposalDir(proposal.name), result, written)
       IN  /\ files' = out.files
           /\ written' = out.written
           /\ pc' = CASE out.status = "panic" -> "panicked"
                      [] out.status = "err" -> "failed"
                      [] OTHER -> "flush"
           /\ error' = out.error
    /\ UNCHANGED <<run, client, dirs, count, proposal, visited, result, log, used>>

\* mutant: a proposal that has produced no script is an error
WriteMetadataUnlessEmpty ==
    /\ pc = "flush"
    /\ written = Len(result)
    /\ LET done == IF result = << >> THEN [ok |-> FALSE, files |-> files]
                   ELSE write(dirs, files, MetadataPath(proposal.name),
                              MetadataJson(proposal.metadata))
       IN  /\ files' = done.files
           /\ pc' = IF done.ok THEN "proposal" ELSE "failed"
           /\ error' = IF done.ok THEN "" ELSE "write"
           /\ count' = IF done.ok THEN count + 1 ELSE count
    /\ proposal' = NoProposal
    /\ visited' = 0
    /\ result' = << >>
    /\ written' = 0
    /\ log' = << >>
    /\ UNCHANGED <<run, client, dirs, used>>

\* mutant: the metadata is written before the scripts of the proposal
WriteMetadataEarly ==
    /\ pc = "flush"
    /\ LET done == write(dirs, files, MetadataPath(proposal.name), MetadataJson(proposal.metadata))
       IN  /\ files' = done.files
           /\ pc' = IF done.ok THEN "proposal" ELSE "failed"
           /\ error' = IF done.ok THEN "" ELSE "write"
           /\ count' = IF done.ok THEN count + 1 ELSE count
    /\ proposal' = NoProposal
    /\ visited' = 0
    /\ result' = << >>
    /\ written' = 0
    /\ log' = << >>
    /\ UNCHANGED <<run, client, dirs, used>>

\* lines 419-428: the metadata of the proposal, which ends its iteration;
\* the proposal and its artifact list go out of scope
WriteMetadata ==
    /\ pc = "flush"
    /\ written = Len(result)
    /\ LET done == write(dirs, files, MetadataPath(proposal.name), MetadataJson(proposal.metadata))
       IN  /\ files' = done.files
           /\ pc' = IF done.ok THEN "proposal" ELSE "failed"
           /\ error' = IF done.ok THEN "" ELSE "write"
           /\ count' = IF done.ok THEN count + 1 ELSE count
    /\ proposal' = NoProposal
    /\ visited' = 0
    /\ result' = << >>
    /\ written' = 0
    /\ log' = << >>
    /\ UNCHANGED <<run, client, dirs, used>>

\* line 431: no proposal is left
Finish ==
    /\ pc = "proposal"
    /\ pc' = "done"
    /\ UNCHANGED <<error, run, client, dirs, files, count, proposal, visited,
                   result, written, log, used>>

\* The same release is compiled again into the same output root.
Rerun ==
    /\ pc \in {"done", "failed", "panicked"}
    /\ run < MaxRuns
    /\ run' = run + 1
    /\ pc' = "start"
    /\ error' = ""
    /\ count' = 0
    /\ proposal' = NoProposal
    /\ visited' = 0
    /\ result' = << >>
    /\ written' = 0
    /\ log' = << >>
    /\ used' = 0
    /\ UNCHANGED <<client, dirs, files>>

Next ==
    \/ Setup
    \/ BeginProposal
    \/ Generate
    \/ Flush
    \/ WriteMetadata
    \/ Finish
    \/ Rerun

Spec == Init /\ [][Next]_vars


\* ------------------------------------------------------- validate_upgrade
\* The outcome of validating one entry: Ok, or the error with the words that
\* open its message, the expected value it prints and the observed value it
\* prints; with it the network reads, the get_execution_hash calls and the
\* artifacts generated on the way (the code has no such call).
Valid(reads) ==
    [status |-> "ok", error |-> "", expected |-> << >>, got |-> << >>, reads |-> reads,
     calls |-> 0, generated |-> 0]

Mismatch(words, expected, got) ==
    [status |-> "err", error |-> words, expected |-> expected, got |-> got, reads |-> 1,
     calls |-> 0, generated |-> 0]

Unreachable == [status |-> "err", error |-> "network", expected |-> << >>, got |-> << >>,
                reads |-> 1, calls |-> 0, generated |-> 0]

\* lines 260-264, 270-274, 291-300: one comparison, and bail!(...) on a difference
ExpectEqual(net, expected, words, shown) ==
    LET cmp == fetch_and_equals(TRUE, net, expected)
    IN  IF ~cmp.ok THEN Unreachable
        ELSE IF ~cmp.equal THEN Mismatch(words, shown, << >>)
        ELSE Valid(cmp.reads)

\* mutant: an entry is validated by generating its scripts and finding none
validate_by_generating(entry, net) ==
    LET out == generate_release_script(entry, TRUE, net, TRUE, << >>, "MultiStep")
        same == out.status = "ok" /\ out.result = << >>
    IN  [status |-> IF same THEN "ok" ELSE "err",
         error |-> IF same THEN "" ELSE IF out.status = "ok" THEN "mismatch" ELSE out.error,
         expected |-> << >>, got |-> << >>, reads |-> out.reads, calls |-> out.calls,
         generated |-> Len(out.result)]

\* ReleaseEntry::validate_upgrade, lines 255-304
validate_upgrade(entry, net) ==
    CASE entry.kind = "Framework" -> Valid(0)
      [] entry.kind = "RawScript" -> Valid(0)
      [] entry.kind = "CustomGas" ->
            ExpectEqual(net, entry.value, "Gas schedule config mismatch", <<entry.value>>)
      [] entry.kind = "DefaultGas" ->
            ExpectEqual(net, current_gas_schedule, "Gas schedule config mismatch", <<"Default">>)
      [] entry.kind = "Version" ->
            ExpectEqual(net, entry.value, "Version config mismatch", <<entry.value>>)
      [] entry.kind = "FeatureFlag" ->
            IF ~net.ok THEN Unreachable
            ELSE IF has_modified(entry.features, net.enabled)
            THEN Mismatch("Feature mismatch", <<entry.features>>, <<net.enabled>>)
            ELSE Valid(1)
      [] entry.kind = "Consensus" ->
            ExpectEqual(net, entry.value, "Consensus config mismatch", <<entry.value>>)
      [] entry.kind = "Execution" ->
            ExpectEqual(net, entry.value, "Consensus config mismatch", <<entry.value>>)

\* ReleaseConfig::validate_upgrade is called on a release and an endpoint;
\* the file system is not part of the call.
InitValidate ==
    /\ pc = "validate"
    /\ error = ""
    /\ run = 1
    /\ client = TRUE
    /\ dirs \in {{}, {Root}}
    /\ files = NoFiles
    /\ count = 0
    /\ proposal = NoProposal
    /\ visited = 0
    /\ result = << >>
    /\ written = 0
    /\ log = << >>
    /\ used = 0

\* line 474: the next proposal of the release; one without entries is passed over
ValidateProposal ==
    /\ pc = "validate"
    /\ count < MaxProposals
    /\ \E name \in ProposalNames, mode \in ExecutionMode, n \in 0 .. (MaxEntries - used) :
          /\ proposal' = [name |-> name, metadata |-> count + 1, execution_mode |-> mode,
                          entries |-> n]
          /\ pc' = IF n = 0 THEN "validate" ELSE "entries"
          /\ count' = IF n = 0 THEN count + 1 ELSE count
    /\ visited' = 0
    /\ UNCHANGED <<error, run, client, dirs, files, result, written, log, used>>

\* lines 475-477: the next entry of the proposal, in declared order; the
\* first error ends the validation
ValidateEntry ==
    /\ pc = "entries"
    /\ visited < proposal.entries
    /\ \E entry \in ReleaseEntry : \E net \in Responses(entry.kind) :
          LET out == validate_upgrade(entry, net)
              last == visited + 1 = proposal.entries
          IN  /\ log' = Append(log, [pos |-> visited + 1, entry |-> entry, net |-> net,
                                     status |-> out.status, expected |-> out.expected,
                                     got |-> out.got, reads |-> out.reads,
                                     calls |-> out.calls, generated |-> out.generated])
              /\ error' = out.error
              /\ pc' = IF out.status = "err" THEN "invalid"
                       ELSE IF last THEN "validate" ELSE "entries"
              /\ count' = IF out.status = "ok" /\ last THEN count + 1 ELSE count
    /\ visited' = visited + 1
    /\ used' = used + 1
    /\ UNCHANGED <<run, client, dirs, files, proposal, result, written>>

\* line 479: no proposal is left
ValidateFinish ==
    /\ pc = "validate"
    /\ pc' = "valid"
    /\ UNCHANGED <<error, run, client, dirs, files, count, proposal, visited,
                   result, written, log, used>>

NextValidate ==
    \/ ValidateProposal
    \/ ValidateEntry
    \/ ValidateFinish

SpecValidate == InitValidate /\ [][NextValidate]_vars


\* ------------------------------------------------ tools/x: CommonArgs::args
\* The x tool of tools/x/src/lib.rs runs in the same variables: proposal is
\* the parsed command (its variant, the selected packages and the trailing
\* arguments), result the pair <<direct_args, push_through_args>>, log the
\* packages the command is run for and visited the number of them already
\* pushed on the direct arguments.
Commands == {"ChangedSince", "Check", "Fmt", "Nextest", "Test", "Xclippy"}

ArgTokens == {"--", "--release", "--nocapture"}

XPackages == {"aptos-node", "x"}

SeqsUpTo(S, n) == UNION {[1 .. k -> S] : k \in 0 .. n}

\* lines 30-39: the arguments of the variant; ChangedSince has no arm
command_args(cmd) ==
    IF cmd.cmd = "ChangedSince"
    THEN [status |-> "panic", error |-> "unimplemented", args |-> << >>]
    ELSE [status |-> "ok", error |-> "", args |-> cmd.args]

\* line 54: the index, from 0, of the first argument equal to "--"; -1 is None
position(self_args) ==
    LET hits == {i \in 0 .. (Len(self_args) - 1) : self_args[i + 1] = "--"}
    IN  IF hits = {} THEN -1 ELSE CHOOSE i \in hits : \A j \in hits : i <= j

\* line 55: the first mid elements, and the rest
split_at(s, mid) == <<SubSeq(s, 1, mid), SubSeq(s, mid + 1, Len(s))>>

\* mutant: the split is made at the last "--"
args_at_last(self_args) ==
    LET hits == {i \in 0 .. (Len(self_args) - 1) : self_args[i + 1] = "--"}
    IN  IF hits # {}
        THEN LET parts == split_at(self_args, CHOOSE i \in hits : \A j \in hits : j <= i)
             IN  <<parts[1], Tail(parts[2])>>
        ELSE <<self_args, << >> >>

\* lines 53-60
args(self_args) ==
    LET index == position(self_args)
    IN  IF index # -1
        THEN LET parts == split_at(self_args, index)
             IN  <<parts[1], Tail(parts[2])>>
        ELSE <<self_args, << >> >>

InitArgs ==
    /\ pc = "cli"
    /\ error = ""
    /\ run = 1
    /\ client = TRUE
    /\ dirs = {}
    /\ files = NoFiles
    /\ count = 0
    /\ proposal \in [cmd : Commands, package : SeqsUpTo(XPackages, MaxPackages),
                     args : SeqsUpTo(ArgTokens, MaxArgs)]
    /\ visited = 0
    /\ result = << >>
    /\ written = 0
    /\ log = << >>
    /\ used = 0

\* line 72
ExecuteArgs ==
    /\ pc = "cli"
    /\ LET got == command_args(proposal)
       IN  IF got.status = "ok"
           THEN /\ result' = args(got.args)
                /\ pc' = "packages"
                /\ error' = ""
           ELSE /\ result' = result
                /\ pc' = "panicked"
                /\ error' = got.error
    /\ UNCHANGED <<run, client, dirs, files, count, proposal, visited, written, log, used>>

\* lines 74-92: the selected packages or, when none is selected, those the
\* change set affects; the change set may fail to initialise (line 75)
ExecutePackages ==
    /\ pc = "packages"
    /\ IF proposal.package = << >>
       THEN \/ /\ pc' = "failed"
               /\ error' = "change_set"
               /\ log' = log
            \/ \E affected \in SeqsUpTo(XPackages, MaxPackages) :
                  /\ log' = affected
                  /\ pc' = "push"
                  /\ error' = ""
       ELSE /\ log' = proposal.package
            /\ pc' = "push"
            /\ error' = ""
    /\ UNCHANGED <<run, client, dirs, files, count, proposal, visited, result, written, used>>

\* lines 94-97: one turn of the loop
ExecutePush ==
    /\ pc = "push"
    /\ visited < Len(log)
    /\ result' = <<result[1] \o <<"-p", log[visited + 1]>>, result[2]>>
    /\ visited' = visited + 1
    /\ UNCHANGED <<pc, error, run, client, dirs, files, count, proposal, written, log, used>>

\* lines 99-103: both lists are handed to the cargo command
ExecuteRun ==
    /\ pc = "push"
    /\ visited = Len(log)
    /\ pc' = "done"
    /\ UNCHANGED <<error, run, client, dirs, files, count, proposal, visited, result, written,
                   log, used>>

NextArgs ==
    \/ ExecuteArgs
    \/ ExecutePackages
    \/ ExecutePush
    \/ ExecuteRun

SpecArgs == InitArgs /\ [][NextArgs]_vars


\* =================================================================== claims
\* The entry at declared position i of the proposal being compiled, once visited.
Visited(i) == \E k \in 1 .. Len(log) : log[k].pos = i

EntryAt(i) == (CHOOSE k \in 1 .. Len(log) : log[k].pos = i)

Multi == proposal.execution_mode = "MultiStep"

WalkDone == pc = "flush" /\ Len(log) = proposal.entries

\* What the entry's generator (or the template, for a raw script) yields when
\* it is handed the chain hash h.
ScriptsWith(entry, execution_mode, h) ==
    LET t == ModeFlags(execution_mode).is_testnet
    IN  CASE entry.kind = "Framework" -> generate_upgrade_proposals(entry, t, h)
          [] entry.kind = "RawScript" ->
                << [name |-> Last(entry.path),
                    text |-> Render(read_to_string(entry.path).text, HashString(h))] >>
          [] OTHER -> Generated(entry, t, h)

OneArtifactEach == \A k \in 1 .. Len(log) : log[k].status = "ok" /\ log[k].appended = 1

\* text is the template with every placeholder replaced by lit, and nothing
\* else changed
RECURSIVE Substituted(_, _, _)
Substituted(template, text, lit) ==
    IF template = << >> THEN text = << >>
    ELSE IF Head(template) = PLACEHOLDER
    THEN /\ Len(text) >= Len(lit)
         /\ SubSeq(text, 1, Len(lit)) = lit
         /\ Substituted(Tail(template), SubSeq(text, Len(lit) + 1, Len(text)), lit)
    ELSE /\ text # << >>
         /\ Head(text) = Head(template)
         /\ Substituted(Tail(template), Tail(text), lit)

\* The artifact embeds the empty sentinel: a generated script was handed the
\* empty-vector text that the Hash Chainer returns for an empty list, and the
\* placeholders of a raw script were replaced by that text or by the literal
\* of the empty byte vector.
EmbedsEmptySentinel(entry, script) ==
    IF entry.kind = "RawScript"
    THEN /\ script.name = Last(entry.path)
         /\ \/ Substituted(read_to_string(entry.path).text, script.text, EmptyVectorBytes)
            \/ Substituted(read_to_string(entry.path).text, script.text, HashString(EmptyBytes))
    ELSE <<script>> = ScriptsWith(entry, "MultiStep", EmptyVectorBytes)

\* C1 (as claimed): once the walk of a MultiStep proposal whose N entries each
\* produced exactly one artifact has ended, artifact i of the list (execution
\* order) is the artifact of the i-th declared entry carrying the content
\* hash of the text of artifact i+1, and the last artifact embeds the empty
\* sentinel.
C1_Claimed ==
    (WalkDone /\ Multi /\ OneArtifactEach) =>
        /\ Len(result) = proposal.entries
        /\ \A i \in 1 .. Len(result) :
              /\ Visited(i)
              /\ IF i < Len(result)
                 THEN <<result[i]>> = ScriptsWith(log[EntryAt(i)].entry, "MultiStep",
                                                  generate_hash(result[i + 1].text).hash)
                 ELSE EmbedsEmptySentinel(log[EntryAt(i)].entry, result[i])

NoChainerSentinel == \A k \in 1 .. Len(log) : \A j \in 1 .. Len(log[k].chain) :
                        log[k].chain[j] # get_execution_hash(<< >>).hash

\* C2 (as claimed): in a SingleStep or RootSigner proposal every chain hash
\* handed to a generator is the value get_execution_hash returns for an empty
\* artifact list.
C2_Claimed ==
    ~Multi => \A k \in 1 .. Len(log) : \A j \in 1 .. Len(log[k].chain) :
                 log[k].chain[j] = get_execution_hash(<< >>).hash

\* C2 (amended): in a SingleStep or RootSigner proposal every chain hash
\* handed to a generator is the empty byte string, whatever the position of
\* the entry and whatever was accumulated before it; it is not the value
\* get_execution_hash returns for an empty artifact list.
C2_EmptyBytesPassed ==
    ~Multi => /\ \A k \in 1 .. Len(log) : \A j \in 1 .. Len(log[k].chain) :
                    log[k].chain[j] = EmptyBytes
              /\ NoChainerSentinel

C2_Witness ==
    /\ ~Multi
    /\ Len(log) = 2
    /\ log[1].appended = 1
    /\ log[2].chain = <<EmptyBytes>>


\* The live handle reports the value the entry declares.
Agrees(entry, net) ==
    /\ net.ok
    /\ CASE entry.kind = "FeatureFlag" ->
                /\ entry.features.enabled \subseteq net.enabled
                /\ entry.features.disabled \cap net.enabled = {}
         [] entry.kind = "DefaultGas" -> net.value = current_gas_schedule
         [] OTHER -> net.value = entry.value

\* The artifact list as the walk left it, and as it was before the last call.
Walked ==
    IF Multi /\ log # << >> /\ Len(log) = proposal.entries /\ Last(log).status = "ok"
    THEN Reverse(result)
    ELSE result

BeforeLast == SubSeq(Walked, 1, Len(Walked) - Last(log).appended)

\* C3: for the config-shaped entry the run has just processed and the artifact
\* list accumulated before it, a live handle that reports the declared value
\* makes generate_release_script append nothing, and a handle that reports
\* another value makes it end as, and leave the list as, the call without a
\* handle, which appends one artifact unless it fails.
C3_SkipOrSameAsNoHandle ==
    (log # << >> /\ Last(log).entry.kind \in ConfigKinds) =>
       LET e == Last(log).entry
           before == BeforeLast
       IN  \A gen_ok \in BOOLEAN :
              LET without == generate_release_script(e, FALSE, NetFailure, gen_ok, before,
                                                     proposal.execution_mode)
              IN  \A net \in Responses(e.kind) \ {NetFailure} :
                     LET with == generate_release_script(e, TRUE, net, gen_ok, before,
                                                         proposal.execution_mode)
                     IN  IF Agrees(e, net)
                         THEN with.status = "ok" /\ with.result = before
                         ELSE /\ with.status = without.status
                              /\ with.result = without.result
                              /\ (without.status = "ok"
                                    => Len(without.result) = Len(before) + 1)

\* a run with a live handle skipped one config entry and generated the next
C3_Witness ==
    /\ client
    /\ Len(log) = 2
    /\ log[1].entry.kind \in ConfigKinds /\ log[1].reads = 1 /\ log[1].appended = 1
    /\ log[2].entry.kind \in ConfigKinds /\ log[2].reads = 1 /\ log[2].appended = 0
    /\ log[2].status = "ok"
    /\ result # << >>


\* The files directly under a directory.
FilesUnder(fs_files, dir) ==
    {p \in DOMAIN fs_files : Len(p) = Len(dir) + 1 /\ SubSeq(p, 1, Len(dir)) = dir}

\* C4 (as claimed): when the comparator or the generator of an entry fails,
\* the run ends with the failure returned to the caller, no artifact file of
\* the proposal exists and no file on disk has changed.
C4_Claimed ==
    [][(pc = "walk" /\ error' \in {"network", "generator", "generator unwrap"}) =>
          /\ pc' = "failed"
          /\ files' = files
          /\ FilesUnder(files', ProposalDir(proposal.name)) = {}]_vars

TargetDirs == {Root, <<SourcesName>>, <<SourcesName, ReleaseName>>, <<MetadataName>>,
               <<MetadataName, ReleaseName>>}

\* C5 (as claimed): a second run against the same output root fails with a
\* directory-creation error and changes no file, and a run fails at the
\* creation of its directories whenever one of them already exists.
C5_Claimed ==
    [][/\ (run > 1 => files' = files)
       /\ (run > 1 /\ pc = "start" => pc' = "failed" /\ error' = "create_dir")
       /\ (pc = "start" /\ TargetDirs \cap dirs # {} => pc' = "failed")
       /\ (pc = "proposal" /\ pc' # "done" /\ ProposalDir(proposal'.name) \in dirs
              => pc' = "failed")]_vars

\* The words with which an error names the config kind of an entry.
KindWords(kind) ==
    CASE kind \in {"CustomGas", "DefaultGas"} -> "Gas schedule config mismatch"
      [] kind = "Version" -> "Version config mismatch"
      [] kind = "FeatureFlag" -> "Feature mismatch"
      [] kind = "Consensus" -> "Consensus config mismatch"
      [] kind = "Execution" -> "Execution config mismatch"

\* C6 (as claimed): validation that has ended on a release whose non-exempt
\* entries all agree with the chain has succeeded, and validation that has
\* ended at an entry whose on-chain value differs from the declared one has
\* failed with an error that names the config kind of that entry.
C6_Claimed ==
    /\ (pc \in {"valid", "invalid"}
          /\ \A k \in 1 .. Len(log) :
                log[k].entry.kind \in ConfigKinds => Agrees(log[k].entry, log[k].net))
       => pc = "valid"
    /\ (log # << >> /\ Last(log).entry.kind \in ConfigKinds /\ Last(log).net.ok
          /\ ~Agrees(Last(log).entry, Last(log).net))
       => pc = "invalid" /\ error = KindWords(Last(log).entry.kind)


\* The declared positions whose entry appended an artifact, and the rank of
\* such a position among them.
Produced(i) == Visited(i) /\ log[EntryAt(i)].appended = 1

Rank(i) == Cardinality({j \in 1 .. i : Produced(j)})

AtMostOneEach == \A k \in 1 .. Len(log) : log[k].status = "ok" /\ log[k].appended <= 1

\* C7: the k-th call of the walk is on the entry at declared position N-k+1
\* for a MultiStep proposal and k otherwise; when the walk has ended and
\* every entry appended at most one artifact, the list holds the artifacts
\* in the declared order of their entries, and once flushed the files of the
\* proposal directory are those artifacts under the indexes 0..n-1 in that
\* order.
C7_DeclaredOrder ==
    /\ \A k \in 1 .. Len(log) :
          log[k].pos = IF Multi THEN proposal.entries - k + 1 ELSE k
    /\ (WalkDone /\ AtMostOneEach) =>
          /\ Len(result) = Cardinality({i \in 1 .. proposal.entries : Produced(i)})
          /\ \A i \in 1 .. proposal.entries :
                Produced(i) =>
                   result[Rank(i)].name
                      = ScriptsWith(log[EntryAt(i)].entry, proposal.execution_mode,
                                    EmptyBytes)[1].name
          /\ written = Len(result) =>
                /\ FilesUnder(files, ProposalDir(proposal.name))
                      = {ScriptPath(ProposalDir(proposal.name), k - 1, result[k].name) :
                            k \in 1 .. Len(result)}
                /\ \A k \in 1 .. Len(result) :
                      files[ScriptPath(ProposalDir(proposal.name), k - 1, result[k].name)]
                         = append_script_hash(result[k].text).text

C7_Witness ==
    /\ WalkDone /\ Multi /\ AtMostOneEach
    /\ Len(result) = 2 /\ written = 2
    /\ log[1].entry.kind = "Version" /\ log[2].entry.kind = "Consensus"

\* "<name>.<ext>"
WithExtension(name, ext) == name \o <<ext>>

\* C8 (as claimed): when a proposal P has been flushed, each of its
\* artifacts is at sources/R/P/<index>-<name>.move and its metadata is at
\* metadata/R/P.json.
C8_Claimed ==
    [][(pc = "flush" /\ pc' = "proposal") =>
          /\ <<MetadataName, ReleaseName, WithExtension(proposal.name, <<"json">>)>>
                \in DOMAIN files'
          /\ \A k \in 1 .. Len(result) :
                Append(ProposalDir(proposal.name),
                       WithExtension(<<DecimalAtoms(k - 1) \o <<"-">> \o result[k].name[1]>>
                                        \o Tail(result[k].name), <<"move">>))
                   \in DOMAIN files']_vars

\* C9: a RawScript entry that succeeds appends exactly one artifact, named
\* after the file; under MultiStep its text is the file content with every
\* placeholder replaced by the byte-vector literal of the chain hash of the
\* list accumulated before it, under the other modes it is the file content.
C9_RawScript ==
    (log # << >> /\ Last(log).entry.kind = "RawScript" /\ Last(log).status = "ok") =>
        LET path == Last(log).entry.path
            file == read_to_string(path).text
        IN  /\ Last(log).appended = 1
            /\ Last(Walked).name = Last(path)
            /\ IF Multi
               THEN Substituted(file, Last(Walked).text,
                                HashString(get_execution_hash(BeforeLast).hash))
               ELSE Last(Walked).text = file

C9_Witness ==
    /\ Multi /\ Len(log) = 2
    /\ log[1].appended = 1
    /\ log[2].entry.kind = "RawScript" /\ log[2].entry.path = ChainedScript
    /\ log[2].status = "ok"

\* C10 (as claimed): get_execution_hash is called exactly once for every
\* entry of a MultiStep proposal and never for an entry of another proposal.
C10_Claimed ==
    \A k \in 1 .. Len(log) : log[k].calls = IF Multi THEN 1 ELSE 0

\* C10 (amended): generate_release_script calls get_execution_hash at most
\* once for an entry of a MultiStep proposal: once for a Framework entry,
\* once for a RawScript entry whose file was read and registered as a
\* template, once for a config entry whose comparison succeeded and found a
\* difference (or had no handle), and not at all for a config entry that is
\* skipped or whose comparison failed; it never calls it for an entry of a
\* SingleStep or RootSigner proposal.
C10_OncePerGeneratedEntry ==
    \A k \in 1 .. Len(log) :
       LET e == log[k]
           skipped == e.status = "ok" /\ e.appended = 0
       IN  IF ~Multi THEN e.calls = 0
           ELSE CASE e.entry.kind = "Framework" -> e.calls = 1
                  [] e.entry.kind = "RawScript" ->
                        e.calls = IF e.error \in {"file name", "read", "template unwrap"}
                                  THEN 0 ELSE 1
                  [] OTHER -> e.calls = IF skipped \/ e.error = "network" THEN 0 ELSE 1

C10_Witness ==
    /\ Multi /\ Len(log) = 2
    /\ log[1].status = "ok" /\ log[1].appended = 1 /\ log[1].calls = 1
    /\ log[2].status = "ok" /\ log[2].appended = 0 /\ log[2].calls = 0


\* The call just made is the call on a RawScript entry.
RawScriptCalled ==
    /\ pc = "walk"
    /\ Len(log') = Len(log) + 1
    /\ Last(log').entry.kind = "RawScript"

\* The three failures of a RawScript entry: no file name in the path, no
\* file, and under MultiStep a file that is a malformed template.
RawScriptFails(path, execution_mode) ==
    \/ ~file_name(path).some
    \/ ~read_to_string(path).ok
    \/ execution_mode = "MultiStep" /\ ~WellFormed(read_to_string(path).text)

\* C11 (as claimed): a RawScript entry whose path has no file name, whose
\* file is missing or, under MultiStep, whose file is a malformed template
\* ends the run with an error returned to the caller and leaves the
\* accumulated artifact list as it was.
C11_Claimed ==
    [][(RawScriptCalled /\ RawScriptFails(Last(log').entry.path, proposal.execution_mode)) =>
          /\ pc' = "failed"
          /\ Last(log').status = "err"
          /\ result' = result]_vars

\* C12: a step of the validation changes no file, no directory and no
\* artifact list; every entry it has validated was validated without a
\* get_execution_hash call and without a generated artifact, a Framework or
\* RawScript entry successfully and without a network read, a config entry
\* with one network read.
C12_ReadOnly ==
    [][/\ files' = files
       /\ dirs' = dirs
       /\ result' = result
       /\ \A k \in 1 .. Len(log') :
             /\ log'[k].calls = 0
             /\ log'[k].generated = 0
             /\ IF log'[k].entry.kind \in {"Framework", "RawScript"}
                THEN log'[k].status = "ok" /\ log'[k].reads = 0
                ELSE log'[k].reads = 1]_vars

C12_Witness ==
    /\ pc = "valid"
    /\ Len(log) = 2
    /\ log[1].entry.kind = "Framework" /\ log[1].status = "ok"
    /\ log[2].entry.kind = "Version" /\ log[2].reads = 1

\* The value an entry declares and the value the chain was observed with.
Declared(entry) ==
    CASE entry.kind = "FeatureFlag" -> entry.features
      [] entry.kind = "DefaultGas" -> current_gas_schedule
      [] OTHER -> entry.value

Observed(entry, net) == IF entry.kind = "FeatureFlag" THEN net.enabled ELSE net.value

\* C13 (as claimed): the error with which the validation reports the
\* mismatch of a config entry carries the observed value and the declared
\* value.
C13_Claimed ==
    (pc = "invalid" /\ error # "network") =>
        /\ Last(log).got = <<Observed(Last(log).entry, Last(log).net)>>
        /\ Last(log).expected = <<Declared(Last(log).entry)>>

\* C14: for the entry the run has just processed, of a kind compared by
\* fetch_and_equals: without a handle the comparison made no network read,
\* did not fail and did not skip the entry; with a handle it made exactly one
\* read, and for every response of the network it fails iff the read or the
\* deserialization fails and else answers whether the value read equals the
\* declared one; a failure ends the run with that error.
C14_OneReadStructuralEquality ==
    (log # << >> /\ Last(log).entry.kind \in ConfigKinds \ {"FeatureFlag"}) =>
        LET r == Last(log)
            want == Declared(r.entry)
        IN  /\ r.reads = Bit(client)
            /\ ~client => r.error # "network" /\ ~(r.status = "ok" /\ r.appended = 0)
            /\ r.error = "network" => client /\ pc = "failed" /\ r.appended = 0
            /\ \A net \in Responses(r.entry.kind) :
                  LET cmp == fetch_and_equals(client, net, want)
                  IN  IF ~client THEN cmp.ok /\ ~cmp.equal /\ cmp.reads = 0
                      ELSE /\ cmp.reads = 1
                           /\ cmp.ok = net.ok
                           /\ net.ok => (cmp.equal <=> net.value = want)

C14_Witness ==
    /\ client
    /\ Len(log) = 2
    /\ log[1].entry.kind = "CustomGas" /\ log[1].status = "ok" /\ log[1].appended = 0
    /\ log[1].reads = 1
    /\ log[2].entry.kind = "Execution" /\ log[2].error = "network" /\ log[2].reads = 1

\* A configured flag differs from the chain: one to enable is off there, or
\* one to disable is on.
Diverges(features, on_chain) ==
    (features.enabled \ on_chain) \cup (features.disabled \cap on_chain) # {}

\* The script names the whole of both configured sets.
AssertsAll(script, features) ==
    /\ script.text[1] = 3
    /\ script.text[2] = FlagsCode(features.enabled)
    /\ script.text[3] = FlagsCode(features.disabled)

\* C15: for the FeatureFlag entry the run has just processed and the list
\* accumulated before it: a call that succeeds appends an artifact iff there
\* is no handle or a configured flag diverges from the flags the chain
\* reports, and the artifact it appends names the whole configured enabled
\* and disabled sets; the run itself made the read only with a handle and
\* appended what such a call appends.
C15_FeatureFlag ==
    (log # << >> /\ Last(log).entry.kind = "FeatureFlag") =>
        LET r == Last(log)
            mode == proposal.execution_mode
        IN  /\ r.reads = Bit(client)
            /\ (r.status = "ok" /\ ~client) => r.appended = 1
            /\ r.appended = 1 => AssertsAll(Last(Walked), r.entry.features)
            /\ \A handle \in BOOLEAN : \A net \in NetFeatures :
                  LET out == generate_release_script(r.entry, handle, net, TRUE, BeforeLast, mode)
                      added == Len(out.result) - Len(BeforeLast)
                  IN  out.status = "ok" =>
                         /\ added = Bit(~handle \/ Diverges(r.entry.features, net.enabled))
                         /\ added = 1 => AssertsAll(Last(out.result), r.entry.features)

C15_Witness ==
    /\ client
    /\ Len(log) = 2
    /\ log[1].entry.kind = "FeatureFlag" /\ log[1].status = "ok" /\ log[1].appended = 0
    /\ log[2].entry.kind = "FeatureFlag" /\ log[2].status = "ok" /\ log[2].appended = 1

\* C16 (as claimed): a run that has met a failure has ended with the error
\* returned to its caller.
C16_Claimed == error # "" => pc = "failed"

\* The artifacts the last call appended.
LastAppended == SubSeq(Walked, Len(BeforeLast) + 1, Len(Walked))

\* C17: the testnet flag is set for RootSigner only, the chaining flag for
\* MultiStep only, and never both; the artifacts that the generator of the
\* entry just processed has appended are those it yields with the testnet
\* flag of a RootSigner proposal only and with the chain hash of the
\* accumulated list in a MultiStep proposal only, the empty bytes in the
\* other modes, for which get_execution_hash is not called.
C17_ModeFlags ==
    /\ \A mode \in ExecutionMode :
          /\ ModeFlags(mode).is_testnet <=> mode = "RootSigner"
          /\ ModeFlags(mode).is_multi_step <=> mode = "MultiStep"
          /\ ~(ModeFlags(mode).is_testnet /\ ModeFlags(mode).is_multi_step)
    /\ (log # << >> /\ Last(log).entry.kind # "RawScript" /\ Last(log).appended >= 1) =>
          LET r == Last(log)
              testnet == proposal.execution_mode = "RootSigner"
              h == IF Multi THEN get_execution_hash(BeforeLast).hash ELSE EmptyBytes
          IN  /\ r.calls = Bit(Multi)
              /\ r.chain = <<h>>
              /\ LastAppended = IF r.entry.kind = "Framework"
                                THEN generate_upgrade_proposals(r.entry, testnet, h)
                                ELSE Generated(r.entry, testnet, h)

C17_Witness ==
    /\ proposal.execution_mode = "RootSigner"
    /\ Len(log) = 2
    /\ log[1].entry.kind = "Framework" /\ log[1].appended = 2
    /\ log[2].entry.kind = "Consensus" /\ log[2].appended = 1

\* The file written for the k-th artifact of the proposal being flushed.
WrittenFile(k) == files[ScriptPath(ProposalDir(proposal.name), k - 1, result[k].name)]

\* The bytes of the hash in the header of a written file, and the text
\* after the header.
HeaderHash(content) == <<content[2] - HexByteBase>>

AfterHeader(content) == SubSeq(content, 4, Len(content))

\* C18: every file written by the flush is the header, i.e. the opening
\* words, a hash and the line end, followed by the artifact text unchanged,
\* and the hash is the content hash of that text; for a MultiStep proposal
\* whose entries appended at most one artifact each, the chain hash the
\* generator of an artifact was handed is the hash in the header of the file
\* written after it.
C18_Header ==
    (pc \in {"flush", "failed", "panicked"} /\ written > 0) =>
        /\ \A k \in 1 .. written :
              /\ WrittenFile(k)[1] = HeaderOpen
              /\ WrittenFile(k)[3] = HeaderClose
              /\ AfterHeader(WrittenFile(k)) = result[k].text
              /\ generate_hash(result[k].text) = [ok |-> TRUE, hash |-> HeaderHash(WrittenFile(k))]
        /\ (Multi /\ AtMostOneEach) =>
              \A i \in 1 .. proposal.entries :
                 (Produced(i) /\ Rank(i) < written) =>
                    log[EntryAt(i)].chain = <<HeaderHash(WrittenFile(Rank(i) + 1))>>

C18_Witness ==
    /\ pc = "flush" /\ Multi /\ written = 2
    /\ Len(log) = 2
    /\ log[1].entry.kind = "Version" /\ log[1].appended = 1
    /\ log[2].entry.kind = "RawScript" /\ log[2].entry.path = ChainedScript

\* C19 (as claimed): when the last declared entry of a MultiStep proposal,
\* the first of the walk, is a RawScript that has been rendered, the value
\* put in the place of its placeholders denotes the empty byte vector.
C19_Claimed ==
    (Multi /\ log # << >> /\ log[1].entry.kind = "RawScript" /\ log[1].status = "ok") =>
        EmbedsEmptySentinel(log[1].entry, Walked[1])

\* A CustomGas entry that carries the canonical current gas schedule.
CanonicalGas == [kind |-> "CustomGas", value |-> current_gas_schedule]

DefaultGasEntry == [kind |-> "DefaultGas"]

\* C20: with the list accumulated before a gas entry the run has just
\* processed, and in the execution mode of its proposal, a DefaultGas entry
\* and a CustomGas entry with the current gas schedule end
\* generate_release_script the same way with the same list, without a
\* handle and with one, whatever the response of the network and the fate of
\* the generator; and
\* validate_upgrade accepts, rejects or fails on the same responses for both.
C20_DefaultAsCustom ==
    (log # << >> /\ Last(log).entry.kind \in {"DefaultGas", "CustomGas"}) =>
        LET before == BeforeLast
            Same(handle, net, gen_ok) ==
                LET default == generate_release_script(DefaultGasEntry, handle, net, gen_ok,
                                                       before, proposal.execution_mode)
                    custom == generate_release_script(CanonicalGas, handle, net, gen_ok,
                                                      before, proposal.execution_mode)
                IN  /\ default.status = custom.status
                    /\ default.result = custom.result
                    /\ default.reads = custom.reads
        IN  /\ \A gen_ok \in BOOLEAN :
                  /\ Same(FALSE, NetFailure, gen_ok)
                  /\ \A net \in Responses("CustomGas") : Same(TRUE, net, gen_ok)
            /\ \A net \in Responses("CustomGas") :
                  validate_upgrade(DefaultGasEntry, net).status
                     = validate_upgrade(CanonicalGas, net).status

C20_Witness ==
    /\ client
    /\ Len(log) = 2
    /\ log[1].entry = DefaultGasEntry /\ log[1].status = "ok" /\ log[1].appended = 0
    /\ log[2].entry = CanonicalGas /\ log[2].status = "ok" /\ log[2].appended = 1

\* An entry of the proposal was skipped: it succeeded and appended nothing.
SomeSkipped == \E k \in 1 .. Len(log) : log[k].status = "ok" /\ log[k].appended = 0

\* C21 (as claimed): once the walk of a MultiStep proposal has ended with
\* some entries skipped and the others having appended one artifact each,
\* every artifact but the last is the artifact of its entry carrying the
\* content hash of the text of the artifact after it in the list, and the
\* last artifact embeds the empty sentinel.
C21_Claimed ==
    (WalkDone /\ Multi /\ AtMostOneEach /\ SomeSkipped) =>
        \A i \in 1 .. proposal.entries :
           Produced(i) =>
              IF Rank(i) < Len(result)
              THEN <<result[Rank(i)]>>
                      = ScriptsWith(log[EntryAt(i)].entry, "MultiStep",
                                    generate_hash(result[Rank(i) + 1].text).hash)
              ELSE EmbedsEmptySentinel(log[EntryAt(i)].entry, result[Rank(i)])

\* The paths whose file this step has created or changed.
Touched == {q \in DOMAIN files' : q \notin DOMAIN files \/ files'[q] # files[q]}

\* C22: a run that has ended creates nothing more; the directory of a
\* proposal is created at the head of the loop only, i.e. once the proposal
\* before it has been flushed, and it is the directory of the next proposal
\* in declared order; script files are written during the flush of the
\* proposal being compiled, into its directory; the metadata file is
\* written in one step, for that proposal, when all its scripts are on disk.
C22_InOrder ==
    [][/\ pc \in {"done", "failed", "panicked"} => files' = files /\ dirs' = dirs
       /\ (dirs' # dirs /\ pc # "start") =>
             /\ pc = "proposal"
             /\ dirs' = dirs \cup {ProposalDir(proposal'.name)}
             /\ pc' # "failed" => proposal'.metadata = count + 1
       /\ Touched # {} =>
             /\ pc = "flush"
             /\ IF written = Len(result)
                THEN /\ Touched = {MetadataPath(proposal.name)}
                     /\ files'[MetadataPath(proposal.name)] = MetadataJson(count + 1)
                     /\ proposal.metadata = count + 1
                     /\ count' = count + 1
                     /\ \A k \in 1 .. Len(result) :
                           ScriptPath(ProposalDir(proposal.name), k - 1, result[k].name)
                              \in DOMAIN files
                ELSE /\ Touched = {ScriptPath(ProposalDir(proposal.name), k - 1, result[k].name) :
                                      k \in (written + 1) .. written'}
                     /\ written' > written
                     /\ count' = count]_vars

\* the second proposal failed after the first was flushed
C22_Witness ==
    /\ pc = "failed" /\ run = 1 /\ count = 1
    /\ log # << >>
    /\ Cardinality(DOMAIN files) = 2
    /\ Cardinality(dirs) = 7

\* The step reaches a proposal whose name an earlier proposal of the run has.
SameNameReached ==
    /\ pc = "proposal"
    /\ proposal' # proposal
    /\ ProposalDir(proposal'.name) \in dirs

\* C23 (as claimed): a proposal that has the name of an earlier proposal of
\* the run ends the run with a directory-creation error and no file written,
\* and no step of a run changes a file that is already on disk.
C23_Claimed ==
    [][/\ SameNameReached => pc' = "failed" /\ error' = "create_dir" /\ files' = files
       /\ \A q \in DOMAIN files : q \in DOMAIN files' /\ files'[q] = files[q]]_vars

\* C24: a walk whose last entry succeeds goes on to the flush even when
\* nothing was appended; a proposal that reaches the flush with an empty
\* list, having no entry or only skipped ones, is completed by the next
\* step: its metadata file is written, its directory exists and holds no
\* file, it counts as compiled and the run is at the head of the loop for
\* the next proposal.
C24_EmptyProposal ==
    [][/\ (pc = "walk" /\ Len(log') = proposal.entries /\ Last(log').status = "ok")
             => pc' = "flush"
       /\ (pc = "flush" /\ result = << >>) =>
             /\ Len(log) = proposal.entries
             /\ \A k \in 1 .. Len(log) : log[k].status = "ok" /\ log[k].appended = 0
             /\ pc' = "proposal"
             /\ error' = ""
             /\ count' = count + 1
             /\ MetadataPath(proposal.name) \in DOMAIN files'
             /\ files'[MetadataPath(proposal.name)] = MetadataJson(proposal.metadata)
             /\ ProposalDir(proposal.name) \in dirs'
             /\ FilesUnder(files', ProposalDir(proposal.name)) = {}]_vars

\* a proposal of two entries, both skipped, has been completed
C24_Witness ==
    /\ pc = "proposal" /\ run = 1 /\ count = 1 /\ used = 2
    /\ client
    /\ Cardinality(DOMAIN files) = 1

\* C25: once CommonArgs::args has split the trailing arguments, and however
\* many packages were pushed since, the direct arguments it returned and
\* the pass-through arguments are: without any "--", all the arguments and
\* the empty list; otherwise two lists that, with one "--" between them,
\* make up the trailing arguments, the direct one holding no "--" (so the
\* split is at the first "--", the separator is in neither list and every
\* later "--" is in the pass-through list).
C25_SplitAtFirst ==
    pc \in {"packages", "push", "done", "failed"} =>
        LET a == proposal.args
            direct == SubSeq(result[1], 1, Len(result[1]) - 2 * visited)
            pass == result[2]
        IN  IF \A i \in 1 .. Len(a) : a[i] # "--"
            THEN direct = a /\ pass = << >>
            ELSE /\ Len(direct) + 1 + Len(pass) = Len(a)
                 /\ direct \o <<"--">> \o pass = a
                 /\ \A i \in 1 .. Len(direct) : direct[i] # "--"

\* a command was run whose trailing arguments hold "--" twice, after a
\* direct argument and before a pass-through one
C25_Witness ==
    /\ pc = "done" /\ visited = 1
    /\ Len(proposal.args) = 4
    /\ proposal.args[1] # "--" /\ proposal.args[2] = "--" /\ proposal.args[4] = "--"
    /\ result[1] = <<proposal.args[1], "-p", log[1]>>
    /\ result[2] = <<proposal.args[3], "--">>

====
